---------------------------- MODULE Spec2Model ----------------------------
(* A model of spidertrot.py: the node registry kept by main(), and the     *)
(* recursive reflection solver get_path_list_2 with its call stack made    *)
(* explicit.  A Python dict is a function together with its iteration      *)
(* order (a sequence of its keys); Python 2 fixes no order, so the order   *)
(* of every dict is chosen nondeterministically when the dict is built.    *)
EXTENDS Integers, Sequences, FiniteSets, TLC

VARIABLES
    nodes,      \* the Node objects: name |-> value attribute
    pc,         \* position of main(): "menu", "solving", "quit"; "call" for a direct call
    stack,      \* frames of get_path_list_2, outermost first
    call,       \* the arguments of the outermost get_path_list_2 call
    result,     \* the value the outermost call returned
    printed,    \* what the current turn of the menu loop printed
    choice      \* the menu choice and the node name read in the current turn

vars == <<nodes, pc, stack, call, result, printed, choice>>

-----------------------------------------------------------------------------
(* Bounds *)

MaxValue == 3       \* the values typed at the menu range over 0..MaxValue
MaxCount == 2       \* the counts of a direct call's mapping range over 0..MaxCount
MaxAttr == 1        \* the value attributes of a direct call's nodes range over 0..MaxAttr
MaxTarget == 2      \* the target_value of a direct call ranges over 0..MaxTarget

Names == {"alpha", "bravo", "charlie", "delta"}
CallNames == {"alpha", "bravo", "charlie"}

default_nodes == [n \in {"alpha", "bravo", "charlie"} |->
                    CASE n = "alpha" -> 1 [] n = "bravo" -> 2 [] n = "charlie" -> 3]

-----------------------------------------------------------------------------
(* Python values *)

None == "None"
PyNone == [none |-> TRUE, list |-> <<>>]
PyList(l) == [none |-> FALSE, list |-> l]

EmptyDict == [n \in {} |-> 0]

\* no call of get_path_list_2 is in progress
NoCall == [node_dict |-> EmptyDict, target_value |-> 0]

\* every iteration order a dict with key set S can have
Orders(S) == {s \in [1..Cardinality(S) -> S] : \A a \in S : \E i \in 1..Cardinality(S) : s[i] = a}

\* the elements of seq other than x, in order
RECURSIVE Without(_, _)
Without(seq, x) ==
    IF seq = <<>> THEN <<>>
    ELSE IF Head(seq) = x THEN Without(Tail(seq), x)
         ELSE <<Head(seq)>> \o Without(Tail(seq), x)

DecrementBoth(d, n, m) == [d EXCEPT ![n] = @ - 1, ![m] = @ - 1]

Decrement(d, n) == [d EXCEPT ![n] = @ - 1]

\* faulty variant: the callee's counts are not copied back
NoUpdate(d, nd) == d

\* node_dict.update(new_node_dict)
Update(d, nd) == [n \in DOMAIN d |-> IF n \in DOMAIN nd THEN nd[n] ELSE d[n]]

-----------------------------------------------------------------------------
(* get_path_list_1: the brute-force search.  Whether it returns a path     *)
(* never depends on the order in which it tries the nodes.                 *)

RECURSIVE Path1Exists(_, _)
Path1Exists(node_dict, last) ==
    \/ \E n \in DOMAIN node_dict :
          /\ n # last
          /\ node_dict[n] > 0
          /\ Path1Exists(Decrement(node_dict, n), n)
    \/ \A n \in DOMAIN node_dict : node_dict[n] = 0

-----------------------------------------------------------------------------
(* get_path_list_2 *)

\* A frame of get_path_list_2.  order is the iteration order of node_dict; the
\* code reads it only on entry (the caller's loop over new_node_dict reads the
\* caller's new_order, the same order), so the frame drops it afterwards.
\* While a call is in progress the callee's node_dict is the caller's
\* new_node_dict (one object); Return copies it into the caller's field.
Frame(d, order, t) ==
    [node_dict |-> d, order |-> order, target_value |-> t, pc |-> "entry",
     min_n |-> None, max_n |-> None, curr_n |-> None,
     min_key |-> None, new_node_dict |-> EmptyDict, new_order |-> <<>>,
     sub_path_list |-> PyList(<<>>), i |-> 0]

Top == stack[Len(stack)]

\* the frame on top returns val, leaving f as its final state
Return(f, val) ==
    IF Len(stack) = 1
    THEN /\ stack' = <<[f EXCEPT !.pc = "done"]>>
         /\ result' = val
    ELSE LET caller == stack[Len(stack) - 1] IN
         /\ stack' = SubSeq(stack, 1, Len(stack) - 2) \o
                       <<[caller EXCEPT !.new_node_dict = f.node_dict,
                                        !.sub_path_list = val,
                                        !.pc = "returned"]>>
         /\ result' = result

\* faulty variant: a lone node of any positive count is accepted
SingleAtLeastOne(c) == c >= 1

SingleOk(c) == c = 1

\* min(node_dict.keys(), key=lambda x: x.value): the first key of least value
RECURSIVE MinByValue(_, _, _)
MinByValue(order, i, best) ==
    IF i > Len(order) THEN best
    ELSE MinByValue(order, i + 1,
                    IF best = None THEN order[i]
                    ELSE IF nodes[order[i]] < nodes[best] THEN order[i] ELSE best)

\* the loop that finds min_key
RECURSIVE MinKey(_, _, _, _)
MinKey(node_dict, order, i, min_key) ==
    IF i > Len(order) THEN min_key
    ELSE MinKey(node_dict, order, i + 1,
                IF min_key \notin DOMAIN node_dict THEN order[i]
                ELSE IF node_dict[order[i]] < node_dict[min_key] THEN order[i]
                     ELSE min_key)

\* faulty variant: the alternation starts at min_n
StartAtMin(min_n, max_n) == min_n

\* curr_n = max_n
StartNode(min_n, max_n) == max_n

\* faulty variant: curr_n is never switched
Stay(f) == f.curr_n

Switch(f) == IF f.curr_n = f.max_n THEN f.min_n ELSE f.max_n

\* faulty variant: >= in place of >
AtLeastTarget(f) == f.node_dict[f.min_n] + f.node_dict[f.max_n] >= f.target_value

AboveTarget(f) == f.node_dict[f.min_n] + f.node_dict[f.max_n] > f.target_value

\* faulty variant: the partner's count is not tested
MinKeyLeft(d, n, m) == d[m] > 0

Linkable(d, n, m) == d[n] > 0 /\ d[m] > 0

CaseEmpty ==
    /\ stack # <<>> /\ Top.pc = "entry"
    /\ Cardinality(DOMAIN Top.node_dict) = 0
    /\ Return(Top, PyList(<<>>))
    /\ UNCHANGED <<nodes, pc, call, printed, choice>>

CaseSingle ==
    /\ stack # <<>> /\ Top.pc = "entry"
    /\ Cardinality(DOMAIN Top.node_dict) = 1
    /\ LET n == Top.order[1] IN
         IF SingleOk(Top.node_dict[n])
         THEN Return(Top, PyList(<<n>>))
         ELSE Return(Top, PyNone)
    /\ UNCHANGED <<nodes, pc, call, printed, choice>>

CaseTwo ==
    /\ stack # <<>> /\ Top.pc = "entry"
    /\ Cardinality(DOMAIN Top.node_dict) = 2
    /\ LET min_n == MinByValue(Top.order, 1, None)
           max_n == Head(Without(Top.order, min_n))
       IN stack' = [stack EXCEPT ![Len(stack)] =
                      [Top EXCEPT !.min_n = min_n, !.max_n = max_n, !.order = <<>>,
                                  !.sub_path_list = PyList(<<>>),
                                  !.curr_n = StartNode(min_n, max_n),
                                  !.pc = "reflect"]]
    /\ UNCHANGED <<nodes, pc, call, result, printed, choice>>

\* faulty variant: the visit is also taken off the Node's value attribute
ReflectOnNode ==
    /\ stack # <<>> /\ Top.pc = "reflect"
    /\ LET f == Top IN
         IF AboveTarget(f)
         THEN IF f.node_dict[f.curr_n] >= 1
              THEN /\ stack' = [stack EXCEPT ![Len(stack)] =
                          [f EXCEPT !.sub_path_list = PyList(Append(@.list, f.curr_n)),
                                    !.node_dict = Decrement(@, f.curr_n),
                                    !.curr_n = Switch(f)]]
                   /\ nodes' = Decrement(nodes, f.curr_n)
                   /\ result' = result
              ELSE Return(f, PyNone) /\ nodes' = nodes
         ELSE Return(f, f.sub_path_list) /\ nodes' = nodes
    /\ UNCHANGED <<pc, call, printed, choice>>

\* one turn of the while True loop
Reflect ==
    /\ stack # <<>> /\ Top.pc = "reflect"
    /\ LET f == Top IN
         IF AboveTarget(f)
         THEN IF f.node_dict[f.curr_n] >= 1
              THEN /\ stack' = [stack EXCEPT ![Len(stack)] =
                          [f EXCEPT !.sub_path_list = PyList(Append(@.list, f.curr_n)),
                                    !.node_dict = Decrement(@, f.curr_n),
                                    !.curr_n = Switch(f)]]
                   /\ result' = result
              ELSE Return(f, PyNone)
         ELSE Return(f, f.sub_path_list)
    /\ UNCHANGED <<nodes, pc, call, printed, choice>>

\* find min_key, build new_node_dict, call get_path_list_2 on it
CaseMany ==
    /\ stack # <<>> /\ Top.pc = "entry"
    /\ Cardinality(DOMAIN Top.node_dict) >= 3
    /\ LET f == Top
           min_key == MinKey(f.node_dict, f.order, 1, None)
           new_node_dict == [n \in DOMAIN f.node_dict \ {min_key} |-> f.node_dict[n]]
       IN \E new_order \in Orders(DOMAIN new_node_dict) :
            stack' = [stack EXCEPT ![Len(stack)] =
                        [f EXCEPT !.min_key = min_key, !.order = <<>>,
                                  !.new_node_dict = new_node_dict,
                                  !.new_order = new_order,
                                  !.pc = "calling"]]
                     \o <<Frame(new_node_dict, new_order,
                                f.target_value + f.node_dict[min_key])>>
    /\ UNCHANGED <<nodes, pc, call, result, printed, choice>>

\* the recursive call has returned
Returned ==
    /\ stack # <<>> /\ Top.pc = "returned"
    /\ LET f == Top IN
         IF f.sub_path_list.none
         THEN Return(f, PyNone)
         ELSE /\ stack' = [stack EXCEPT ![Len(stack)] =
                     [f EXCEPT !.node_dict = Update(@, f.new_node_dict),
                               !.i = 1, !.pc = "link"]]
              /\ result' = result
    /\ UNCHANGED <<nodes, pc, call, printed, choice>>

\* one step of the loops that link the solution with the min node
Link ==
    /\ stack # <<>> /\ Top.pc = "link"
    /\ LET f == Top IN
         IF f.i > Len(f.new_order) \/ f.node_dict[f.min_key] <= 0
         THEN Return(f, f.sub_path_list)
         ELSE LET n == f.new_order[f.i] IN
              /\ IF Linkable(f.node_dict, n, f.min_key)
                 THEN stack' = [stack EXCEPT ![Len(stack)] =
                        [f EXCEPT !.sub_path_list =
                                     PyList(Append(Append(@.list, f.min_key), n)),
                                  !.node_dict = DecrementBoth(@, n, f.min_key)]]
                 ELSE stack' = [stack EXCEPT ![Len(stack)] = [f EXCEPT !.i = @ + 1]]
              /\ result' = result
    /\ UNCHANGED <<nodes, pc, call, printed, choice>>

-----------------------------------------------------------------------------
(* output_path and main *)

RECURSIVE Moves(_)
Moves(path) ==
    IF Len(path) < 2 THEN <<>>
    ELSE <<<<path[1], path[2]>>>> \o Moves(Tail(path))

\* choice "4", up to the call of get_path_list_2
OutputPath ==
    /\ pc = "menu"
    /\ LET node_dict == [n \in DOMAIN nodes |-> nodes[n]] IN
       \E order \in Orders(DOMAIN node_dict) :
         /\ stack' = <<Frame(node_dict, order, 0)>>
         /\ call' = [node_dict |-> node_dict, target_value |-> 0]
    /\ pc' = "solving"
    /\ printed' = <<>>
    /\ choice' = <<"4", None>>
    /\ UNCHANGED <<nodes, result>>

\* the rest of output_path, once get_path_list_2 has returned
PrintPath ==
    /\ pc = "solving"
    /\ stack # <<>> /\ Top.pc = "done"
    /\ printed' = IF result.none THEN <<<<"Impossible puzzle.">>>>
                  ELSE Moves(<<"start">> \o result.list \o <<"end">>)
    /\ stack' = <<>>
    /\ call' = NoCall
    /\ result' = PyNone
    /\ pc' = "menu"
    /\ UNCHANGED <<nodes, choice>>

\* faulty variant: the name is not looked up before the node is stored
AddNodeUnchecked(name, value) ==
    /\ pc = "menu"
    /\ choice' = <<"1", name>>
    /\ nodes' = [n \in DOMAIN nodes \cup {name} |-> IF n = name THEN value ELSE nodes[n]]
    /\ printed' = <<>>
    /\ UNCHANGED <<pc, stack, call, result>>

\* choice "1"
AddNode(name, value) ==
    /\ pc = "menu"
    /\ choice' = <<"1", name>>
    /\ IF name \in DOMAIN nodes
       THEN /\ printed' = <<<<"That node name is already used.">>>>
            /\ nodes' = nodes
       ELSE /\ nodes' = [n \in DOMAIN nodes \cup {name} |->
                           IF n = name THEN value ELSE nodes[n]]
            /\ printed' = <<>>
    /\ UNCHANGED <<pc, stack, call, result>>

\* choice "2"
ModifyNode(name, value) ==
    /\ pc = "menu"
    /\ choice' = <<"2", name>>
    /\ IF name \notin DOMAIN nodes
       THEN /\ printed' = <<<<"That node does not currently exist.">>>>
            /\ nodes' = nodes
       ELSE /\ nodes' = [nodes EXCEPT ![name] = value]
            /\ printed' = <<>>
    /\ UNCHANGED <<pc, stack, call, result>>

\* choice "3"
DeleteNode(name) ==
    /\ pc = "menu"
    /\ choice' = <<"3", name>>
    /\ IF name \in DOMAIN nodes
       THEN /\ nodes' = [n \in DOMAIN nodes \ {name} |-> nodes[n]]
            /\ printed' = <<>>
       ELSE /\ printed' = <<<<"That node does not currently exist.">>>>
            /\ nodes' = nodes
    /\ UNCHANGED <<pc, stack, call, result>>

\* choice "0"
Quit ==
    /\ pc = "menu"
    /\ choice' = <<"0", None>>
    /\ pc' = "quit"
    /\ printed' = <<>>
    /\ UNCHANGED <<nodes, stack, call, result>>

\* any other choice
InvalidChoice ==
    /\ pc = "menu"
    /\ choice' = <<"other", None>>
    /\ printed' = <<<<"Invalid choice.">>>>
    /\ UNCHANGED <<nodes, pc, stack, call, result>>

\* the names and the non-negative values typed at the prompts
Add == \E name \in Names, value \in 0..MaxValue : AddNode(name, value)
Modify == \E name \in Names, value \in 0..MaxValue : ModifyNode(name, value)
Delete == \E name \in Names : DeleteNode(name)

\* main({"alpha" : 1, "bravo" : 2, "charlie" : 3})
Init ==
    /\ nodes = default_nodes
    /\ pc = "menu"
    /\ stack = <<>>
    /\ call = NoCall
    /\ result = PyNone
    /\ printed = <<>>
    /\ choice = <<None, None>>

Next ==
    \/ Add \/ Modify \/ Delete \/ OutputPath \/ PrintPath \/ Quit \/ InvalidChoice
    \/ CaseEmpty \/ CaseSingle \/ CaseTwo \/ Reflect \/ CaseMany \/ Returned \/ Link

Spec == Init /\ [][Next]_vars

-----------------------------------------------------------------------------
(* A direct call get_path_list_2(node_dict, target_value) by any caller:   *)
(* the counts of the mapping need not be the nodes' value attributes.      *)

InitCall ==
    /\ pc = "call"
    /\ \E keys \in SUBSET CallNames :
         /\ nodes \in [keys -> 0..MaxAttr]
         /\ \E node_dict \in [keys -> 0..MaxCount], target_value \in 0..MaxTarget :
              /\ call = [node_dict |-> node_dict, target_value |-> target_value]
              /\ \E order \in Orders(keys) :
                   stack = <<Frame(node_dict, order, target_value)>>
    /\ result = PyNone
    /\ printed = <<>>
    /\ choice = <<None, None>>

NextCall ==
    CaseEmpty \/ CaseSingle \/ CaseTwo \/ Reflect \/ CaseMany \/ Returned \/ Link

SpecCall == InitCall /\ [][NextCall]_vars

-----------------------------------------------------------------------------
(* Properties *)

Count(seq, n) == Cardinality({i \in DOMAIN seq : seq[i] = n})

RECURSIVE Total(_)
Total(d) ==
    IF DOMAIN d = {} THEN 0
    ELSE LET n == CHOOSE m \in DOMAIN d : TRUE
         IN d[n] + Total([m \in DOMAIN d \ {n} |-> d[m]])

Least(d) == CHOOSE c \in {d[n] : n \in DOMAIN d} : \A n \in DOMAIN d : c <= d[n]
Greatest(d) == CHOOSE c \in {d[n] : n \in DOMAIN d} : \A n \in DOMAIN d : c >= d[n]

Max(a, b) == IF a >= b THEN a ELSE b
Min(a, b) == IF a <= b THEN a ELSE b

\* the outermost call of get_path_list_2 has returned
Done == Len(stack) = 1 /\ stack[1].pc = "done"

DoneWithList == Done /\ ~result.none

C2_NoAdjacentRepeat ==
    DoneWithList =>
        \A i \in 1..(Len(result.list) - 1) : result.list[i] # result.list[i + 1]

\* a list whose end is the peeled minimum node and a partner, appended to a
\* non-empty sub-sequence of the recursive call
C2_Witness ==
    /\ DoneWithList
    /\ stack[1].min_key # None
    /\ Len(result.list) >= 4
    /\ result.list[Len(result.list) - 1] = stack[1].min_key
    /\ Count(result.list, stack[1].min_key) = 1

\* C3: get_path_list_2(node_dict, 0) returns None exactly when the brute-force
\* get_path_list_1 returns None on the same mapping.
C3_ExistenceDecision ==
    Done => (result.none <=> ~Path1Exists(call.node_dict, None))

\* C4: with exactly two nodes of counts p <= q and target 0, a list is returned
\* exactly when q <= p + 1 (None exactly when q > p + 1), and the list has
\* length p + q.
C4_TwoNodeFeasibility ==
    (Done /\ Cardinality(DOMAIN call.node_dict) = 2 /\ call.target_value = 0) =>
        LET p == Least(call.node_dict)
            q == Greatest(call.node_dict)
        IN /\ result.none <=> q > p + 1
           /\ ~result.none => Len(result.list) = p + q

C4_Witness ==
    /\ DoneWithList
    /\ pc = "solving"
    /\ Cardinality(DOMAIN call.node_dict) = 2
    /\ Least(call.node_dict) >= 1
    /\ Greatest(call.node_dict) = Least(call.node_dict) + 1

\* C5: with exactly one node n, get_path_list_2 returns [n] when the node's
\* count is 1 and None for every other count, whatever the target_value.
C5_SingleNode ==
    (Done /\ Cardinality(DOMAIN call.node_dict) = 1) =>
        LET n == CHOOSE m \in DOMAIN call.node_dict : TRUE
        IN result = IF call.node_dict[n] = 1 THEN PyList(<<n>>) ELSE PyNone

C5_Witness ==
    /\ Done
    /\ Cardinality(DOMAIN call.node_dict) = 1
    /\ call.target_value > 0
    /\ \E n \in DOMAIN call.node_dict : call.node_dict[n] = 1 /\ result = PyList(<<n>>)

\* C6: adding a name already present fails, modifying or deleting an absent name
\* fails, and a failed operation leaves the registry as it was.
C6_RegistryErrors ==
    [][pc = "menu" =>
        /\ (choice'[1] = "1" /\ choice'[2] \in DOMAIN nodes) =>
              /\ nodes' = nodes
              /\ printed' = <<<<"That node name is already used.">>>>
        /\ (choice'[1] \in {"2", "3"} /\ choice'[2] \notin DOMAIN nodes) =>
              /\ nodes' = nodes
              /\ printed' = <<<<"That node does not currently exist.">>>>]_vars

\* a modification of an absent name has just failed
C6_Witness ==
    /\ pc = "menu"
    /\ choice[1] = "2"
    /\ choice[2] \notin DOMAIN nodes
    /\ printed = <<<<"That node does not currently exist.">>>>
    /\ nodes # default_nodes

\* C7: while the current puzzle is being solved, and when the solver has
\* returned, the registry holds the names and values it held when the snapshot
\* {n: n.value} was taken.
C7_SnapshotIsolation ==
    pc = "solving" => nodes = call.node_dict

\* the solver has spent the whole working mapping and returned a traversal
C7_Witness ==
    /\ pc = "solving"
    /\ DoneWithList
    /\ Len(result.list) >= 3
    /\ \A n \in DOMAIN nodes : stack[1].node_dict[n] = 0 /\ nodes[n] > 0

\* C8: no count of any working mapping, at any level of the recursion, is ever
\* negative.
C8_NonNegativeCounts ==
    \A k \in DOMAIN stack :
        /\ \A n \in DOMAIN stack[k].node_dict : stack[k].node_dict[n] >= 0
        /\ \A n \in DOMAIN stack[k].new_node_dict : stack[k].new_node_dict[n] >= 0

\* the merge loop, with the callee's counts copied back, meets an exhausted
\* node while the minimum node still has visits to spend
C8_Witness ==
    /\ pc = "solving"
    /\ Len(stack) = 1
    /\ stack[1].pc = "link"
    /\ stack[1].i <= Len(stack[1].new_order)
    /\ stack[1].node_dict[stack[1].min_key] > 0
    /\ stack[1].node_dict[stack[1].new_order[stack[1].i]] = 0
    /\ call.node_dict[stack[1].new_order[stack[1].i]] > 0

\* C9: in the two-node case min_n is a node of (weakly) smaller count in the
\* mapping and the alternation starts at the other node, so with target 0 and
\* counts p <= q <= p + 1 the call returns a list.
C9_StartsAtLargerCount ==
    /\ \A k \in DOMAIN stack :
          (stack[k].pc = "reflect" /\ stack[k].sub_path_list.list = <<>>) =>
              /\ stack[k].node_dict[stack[k].min_n] <= stack[k].node_dict[stack[k].max_n]
              /\ stack[k].curr_n = stack[k].max_n
    /\ (Done /\ Cardinality(DOMAIN call.node_dict) = 2 /\ call.target_value = 0
          /\ Greatest(call.node_dict) <= Least(call.node_dict) + 1) => ~result.none

\* what a two-node call that started with counts of sum sum0 and target t
\* returned (list) and left in the mapping (rest)
TwoNodeOutcome(sum0, t, list, rest) ==
    /\ Len(list) = Max(0, sum0 - t)
    /\ rest = Min(sum0, t)

\* C10: when the two-node case returns a list for counts p, q and target t, the
\* list has length max(0, p + q - t) and the counts left sum to min(p + q, t);
\* no move is made once the counts left sum to t or less.
C10_DeficitStop ==
    /\ (DoneWithList /\ Cardinality(DOMAIN call.node_dict) = 2) =>
          TwoNodeOutcome(Total(call.node_dict), call.target_value,
                         result.list, Total(stack[1].node_dict))
    /\ \A k \in DOMAIN stack :
          LET f == stack[k] IN
          /\ (f.pc = "returned" /\ Cardinality(DOMAIN f.new_node_dict) = 2
                /\ ~f.sub_path_list.none) =>
                TwoNodeOutcome(Total(f.node_dict) - f.node_dict[f.min_key],
                               f.target_value + f.node_dict[f.min_key],
                               f.sub_path_list.list, Total(f.new_node_dict))
          /\ (f.pc = "reflect" /\ f.sub_path_list.list # <<>>) =>
                f.node_dict[f.min_n] + f.node_dict[f.max_n] >= f.target_value

\* a two-node call that stopped early, leaving exactly the deficit unspent
C10_Witness ==
    /\ DoneWithList
    /\ Cardinality(DOMAIN call.node_dict) = 2
    /\ call.target_value > 0
    /\ result.list # <<>>
    /\ Total(stack[1].node_dict) = call.target_value

=============================================================================
